---- MODULE Spec2Model ----
(***************************************************************************)
(* Model of src/anomaly_detection.py: the EMAAnomalyDetector class         *)
(* (__init__ and update_ema), validate_data, and the two asyncio tasks of  *)
(* the module-level event loop that share one detector.                    *)
(*                                                                         *)
(* update_ema computes with Python floats, i.e. IEEE 754 binary64 numbers  *)
(* rounded to nearest-even after every operation.  The model keeps that    *)
(* arithmetic bit for bit: a finite float is sign * m * 2^e with m an odd  *)
(* natural number of at most Precision bits, held as a little-endian       *)
(* sequence of limbs of radix Base.                                        *)
(*                                                                         *)
(* What the model covers: arguments that are Python floats (finite, NaN,   *)
(* infinite), None or a string; x ** 2 on a float is the correctly rounded *)
(* product x * x and raises OverflowError when that is infinite, while on  *)
(* the numpy.float64 held in self.std it gives inf; the sign of a zero is  *)
(* not kept (no operation of update_ema can tell the two zeros apart).     *)
(***************************************************************************)
EXTENDS Integers, Sequences, FiniteSets, TLC

(***************************************************************************)
(* Natural numbers of arbitrary size (mantissas and their products), as    *)
(* little-endian sequences of limbs without leading zero limbs.            *)
(*                                                                         *)
(* Evaluation note: an operator argument is re-evaluated at each use, so   *)
(* an operator that reads an argument more than once first binds its value *)
(* with  CHOOSE r \in {F(v) : v \in {arg}} : TRUE.                         *)
(***************************************************************************)
LimbBits == 14
Base == 2^LimbBits

RECURSIVE NatTrim(_)
NatTrim(a) ==
  IF a = <<>> THEN a
  ELSE IF a[Len(a)] = 0 THEN NatTrim(SubSeq(a, 1, Len(a) - 1)) ELSE a

NatLimb(a, i) == IF i >= 1 /\ i <= Len(a) THEN a[i] ELSE 0

NatOfInt(n) ==
  IF n = 0 THEN <<>>
  ELSE IF n < Base THEN <<n>>
  ELSE IF n < Base * Base THEN <<n % Base, n \div Base>>
  ELSE <<n % Base, (n \div Base) % Base, n \div (Base * Base)>>

RECURSIVE NatAddC(_, _, _, _)
NatAddC(a, b, i, c) ==
  IF i > Len(a) /\ i > Len(b)
  THEN (IF c = 0 THEN <<>> ELSE <<c>>)
  ELSE CHOOSE r \in {<<t % Base>> \o NatAddC(a, b, i + 1, t \div Base) :
                       t \in {NatLimb(a, i) + NatLimb(b, i) + c}} : TRUE

NatAdd(a, b) == CHOOSE r \in {NatAddC(x, y, 1, 0) : x \in {a}, y \in {b}} : TRUE

RECURSIVE NatSubC(_, _, _, _)
NatSubC(a, b, i, c) ==
  IF i > Len(a) THEN <<>>
  ELSE CHOOSE r \in {IF t < 0 THEN <<t + Base>> \o NatSubC(a, b, i + 1, 1)
                              ELSE <<t>> \o NatSubC(a, b, i + 1, 0) :
                       t \in {a[i] - NatLimb(b, i) - c}} : TRUE

\* a - b for a >= b
NatSub(a, b) == CHOOSE r \in {NatTrim(NatSubC(x, y, 1, 0)) : x \in {a}, y \in {b}} : TRUE

RECURSIVE NatCmpAt(_, _, _)
NatCmpAt(a, b, i) ==
  IF i = 0 THEN 0
  ELSE IF a[i] > b[i] THEN 1
  ELSE IF a[i] < b[i] THEN -1
  ELSE NatCmpAt(a, b, i - 1)

\* -1, 0, 1 as a < b, a = b, a > b
NatCmpV(a, b) ==
  IF Len(a) > Len(b) THEN 1
  ELSE IF Len(a) < Len(b) THEN -1
  ELSE NatCmpAt(a, b, Len(a))

NatCmp(a, b) == CHOOSE r \in {NatCmpV(x, y) : x \in {a}, y \in {b}} : TRUE

RECURSIVE NatMulLimbC(_, _, _, _)
NatMulLimbC(a, d, i, c) ==
  IF i > Len(a) THEN (IF c = 0 THEN <<>> ELSE <<c>>)
  ELSE CHOOSE r \in {<<t % Base>> \o NatMulLimbC(a, d, i + 1, t \div Base) :
                       t \in {a[i] * d + c}} : TRUE

\* a * d for a single limb d
NatMulLimb(a, d) ==
  CHOOSE r \in {IF y = 0 THEN <<>> ELSE NatMulLimbC(x, y, 1, 0) : x \in {a}, y \in {d}} : TRUE

Zeros(n) == [i \in 1..n |-> 0]

RECURSIVE NatMulAt(_, _, _)
NatMulAt(a, b, j) ==
  IF j > Len(b) THEN <<>>
  ELSE CHOOSE r \in {NatAdd(IF p = <<>> THEN <<>> ELSE Zeros(j - 1) \o p, rest) :
                       p \in {NatMulLimb(a, b[j])}, rest \in {NatMulAt(a, b, j + 1)}} : TRUE

NatMul(a, b) ==
  CHOOSE r \in {IF x = <<>> \/ y = <<>> THEN <<>> ELSE NatMulAt(x, y, 1) :
                  x \in {a}, y \in {b}} : TRUE

\* a * 2^k
NatShl(a, k) ==
  CHOOSE r \in {IF x = <<>> THEN <<>>
                ELSE Zeros(k \div LimbBits) \o NatMulLimb(x, 2^(k % LimbBits)) :
                  x \in {a}} : TRUE

NatShrV(a, q, lo, hi) ==
  IF q >= Len(a) THEN <<>>
  ELSE NatTrim([i \in 1..(Len(a) - q) |->
                 (a[i + q] \div lo) + (NatLimb(a, i + q + 1) % lo) * hi])

\* floor(a / 2^k)
NatShr(a, k) ==
  CHOOSE r \in {NatShrV(x, k \div LimbBits, 2^(k % LimbBits), 2^(LimbBits - (k % LimbBits))) :
                  x \in {a}} : TRUE

\* the low k bits of a are all zero
NatLowZero(a, k) ==
  \E x \in {a} :
    /\ \A i \in 1..(k \div LimbBits) : NatLimb(x, i) = 0
    /\ NatLimb(x, (k \div LimbBits) + 1) % (2^(k % LimbBits)) = 0

\* bit j (counted from 0) of a
NatBit(a, j) == (NatLimb(a, (j \div LimbBits) + 1) \div (2^(j % LimbBits))) % 2

LimbBitLen(x) == CHOOSE n \in 1..LimbBits : 2^(n - 1) <= x /\ x < 2^n

NatBitLen(a) ==
  CHOOSE r \in {IF x = <<>> THEN 0 ELSE LimbBits * (Len(x) - 1) + LimbBitLen(x[Len(x)]) :
                  x \in {a}} : TRUE

LimbTrailingZeros(x) == CHOOSE n \in 0..(LimbBits - 1) : x % (2^n) = 0 /\ (x \div (2^n)) % 2 = 1

\* number of trailing zero bits of a # 0
NatTrailingZeros(a) ==
  CHOOSE r \in {LimbBits * (i - 1) + LimbTrailingZeros(x[i]) :
                  x \in {a}, i \in {CHOOSE j \in 1..Len(a) : a[j] # 0 /\ \A h \in 1..(j - 1) : a[h] = 0}} : TRUE

(***************************************************************************)
(* Python numbers: IEEE 754 binary64.  A value is a record                 *)
(*   [k, s, m, e]   k = "fin": (-1)^s * m * 2^e, m odd (or m = 0, e = 0)   *)
(*                  k = "inf": (-1)^s * infinity,   k = "nan": NaN         *)
(* and the two non-numeric samples k = "none" (None) and k = "str" (a      *)
(* string).  The sign of a zero is not kept (0.0 and -0.0 compare equal    *)
(* and no operation of update_ema tells them apart).  The float operators  *)
(* below take values (state variables or bound variables) as arguments.    *)
(***************************************************************************)
Precision == 53        \* sys.float_info.mant_dig
EMin == -1074          \* the smallest subnormal is 2^EMin
EMax == 1024           \* a magnitude >= 2^EMax is not finite

Fin(s, m, e) == [k |-> "fin", s |-> s, m |-> m, e |-> e]
Zero == Fin(0, <<>>, 0)
NaN == [k |-> "nan", s |-> 0, m |-> <<>>, e |-> 0]
Inf(s) == [k |-> "inf", s |-> s, m |-> <<>>, e |-> 0]
None == [k |-> "none", s |-> 0, m |-> <<>>, e |-> 0]
Str == [k |-> "str", s |-> 0, m |-> <<>>, e |-> 0]

IsNum(a) == a.k \in {"fin", "inf", "nan"}
IsFinite(a) == a.k = "fin"
IsZero(a) == a.k = "fin" /\ a.m = <<>>
Xor(s, t) == (s + t) % 2
Max2(x, y) == IF x >= y THEN x ELSE y
Min2(x, y) == IF x <= y THEN x ELSE y

\* the float of sign s and magnitude n * 2^e, which is representable
Canon(s, n, e) ==
  CHOOSE r \in {IF v = <<>> THEN Zero
                ELSE CHOOSE f \in {Fin(s, NatShr(v, z), e + z) : z \in {NatTrailingZeros(v)}} : TRUE :
                  v \in {n}} : TRUE

\* n rounded to nearest-even after dropping its low sh > 0 bits
RoundShift(n, sh, sticky) ==
  CHOOSE r \in {IF NatBit(n, sh - 1) = 1 /\ (sticky \/ ~NatLowZero(n, sh - 1) \/ NatBit(q, 0) = 1)
                THEN NatAdd(q, <<1>>) ELSE q :
                  q \in {NatShr(n, sh)}} : TRUE

RoundNat(s, n, e, sticky) ==
  IF n = <<>> THEN Zero
  ELSE CHOOSE f \in
         {IF sh = 0
          THEN IF NatBitLen(n) + e > EMax THEN Inf(s) ELSE Canon(s, n, e)
          ELSE CHOOSE g \in {IF NatBitLen(r) + e + sh > EMax THEN Inf(s)
                             ELSE Canon(s, r, e + sh) :
                               r \in {RoundShift(n, sh, sticky)}} : TRUE :
            sh \in {Max2(Max2(NatBitLen(n) - Precision, EMin - e), 0)}} : TRUE

\* round-to-nearest-even of the magnitude n * 2^e (plus, when sticky, a
\* non-zero amount below one unit of n) to a binary64 of sign s
Round(s, n, e, sticky) ==
  CHOOSE r \in {RoundNat(s, v, e, sticky) : v \in {n}} : TRUE

\* the float of a small integer literal
FromInt(n) == IF n < 0 THEN Canon(1, NatOfInt(-n), 0) ELSE Canon(0, NatOfInt(n), 0)

FNeg(a) == IF a.k = "inf" \/ (a.k = "fin" /\ a.m # <<>>) THEN [a EXCEPT !.s = 1 - a.s] ELSE a
FAbs(a) == IF a.k \in {"inf", "fin"} THEN [a EXCEPT !.s = 0] ELSE a

\* position just above the top bit of a finite non-zero float
Top(a) == a.e + NatBitLen(a.m)

FMul(a, b) ==
  IF a.k = "nan" \/ b.k = "nan" THEN NaN
  ELSE IF a.k = "inf" \/ b.k = "inf"
       THEN IF IsZero(a) \/ IsZero(b) THEN NaN ELSE Inf(Xor(a.s, b.s))
  ELSE IF IsZero(a) \/ IsZero(b) THEN Zero
  ELSE Round(Xor(a.s, b.s), NatMul(a.m, b.m), a.e + b.e, FALSE)

\* x * 2^e0 and y * 2^e0 are the magnitudes of a and b
FAddAligned(a, b, x, y, e0) ==
  IF a.s = b.s THEN Round(a.s, NatAdd(x, y), e0, FALSE)
  ELSE CHOOSE r \in {IF c = 0 THEN Zero
                     ELSE IF c > 0 THEN Round(a.s, NatSub(x, y), e0, FALSE)
                     ELSE Round(b.s, NatSub(y, x), e0, FALSE) :
                       c \in {NatCmp(x, y)}} : TRUE

FAddFin(a, b) ==
  IF IsZero(a) THEN b
  ELSE IF IsZero(b) THEN a
  ELSE IF Top(a) - Top(b) > Precision + 3 THEN a
  ELSE IF Top(b) - Top(a) > Precision + 3 THEN b
  ELSE CHOOSE r \in {FAddAligned(a, b, x, y, Min2(a.e, b.e)) :
                       x \in {NatShl(a.m, a.e - Min2(a.e, b.e))},
                       y \in {NatShl(b.m, b.e - Min2(a.e, b.e))}} : TRUE

FAdd(a, b) ==
  IF a.k = "nan" \/ b.k = "nan" THEN NaN
  ELSE IF a.k = "inf"
       THEN IF b.k = "inf" /\ b.s # a.s THEN NaN ELSE a
  ELSE IF b.k = "inf" THEN b
  ELSE FAddFin(a, b)

FSub(a, b) == CHOOSE r \in {FAdd(a, nb) : nb \in {FNeg(b)}} : TRUE

\* a > b (False whenever either is NaN)
FGt(a, b) ==
  IF a.k = "nan" \/ b.k = "nan" THEN FALSE
  ELSE \E d \in {FSub(a, b)} : d.k # "nan" /\ d.s = 0 /\ ~IsZero(d)

\* One step of the classical bit-by-bit square root on st = <<rem, res, j>>,
\* j the exponent of the current power of four.
ISqrtStep(st) ==
  CHOOSE r \in {IF NatCmp(st[1], t) >= 0
                THEN <<NatSub(st[1], t), NatAdd(half, bit), st[3] - 1>>
                ELSE <<st[1], half, st[3] - 1>> :
                  bit \in {NatShl(<<1>>, 2 * st[3])},
                  t \in {NatAdd(st[2], NatShl(<<1>>, 2 * st[3]))},
                  half \in {NatShr(st[2], 1)}} : TRUE

RECURSIVE ISqrtLoop(_)
ISqrtLoop(st) ==
  IF st[3] < 0 THEN <<st[2], st[1]>>
  ELSE CHOOSE r \in {ISqrtLoop(nx) : nx \in {ISqrtStep(st)}} : TRUE

\* <<floor(sqrt(n)), n - floor(sqrt(n))^2>>
ISqrt(n) ==
  CHOOSE r \in {ISqrtLoop(st) : st \in {<<n, <<>>, (NatBitLen(n) - 1) \div 2>>}} : TRUE

\* sqrt of a finite a > 0; t makes the exponent even and the root long enough
FSqrtFin(a, t) ==
  CHOOSE f \in {Round(0, r[1], (a.e - t) \div 2, r[2] # <<>>) :
                  r \in {ISqrt(NatShl(a.m, t))}} : TRUE

FSqrt(a) ==
  IF a.k = "nan" THEN NaN
  ELSE IF IsZero(a) THEN Zero
  ELSE IF a.s = 1 THEN NaN
  ELSE IF a.k = "inf" THEN a
  ELSE CHOOSE f \in {FSqrtFin(a, t0 + ((a.e - t0) % 2)) :
                       t0 \in {2 * Precision + 3 - NatBitLen(a.m)}} : TRUE

\* One step of binary long division on st = <<n, d, i, q, r>>: bit i of n is
\* brought down into the remainder r.
NatDivStep(st) ==
  CHOOSE x \in {IF NatCmp(r2, st[2]) >= 0
                THEN <<st[1], st[2], st[3] - 1, NatAdd(q2, <<1>>), NatSub(r2, st[2])>>
                ELSE <<st[1], st[2], st[3] - 1, q2, r2>> :
                  r2 \in {NatAdd(NatShl(st[5], 1), IF NatBit(st[1], st[3]) = 1 THEN <<1>> ELSE <<>>)},
                  q2 \in {NatShl(st[4], 1)}} : TRUE

RECURSIVE NatDivLoop(_)
NatDivLoop(st) ==
  IF st[3] < 0 THEN <<st[4], st[5]>>
  ELSE CHOOSE r \in {NatDivLoop(nx) : nx \in {NatDivStep(st)}} : TRUE

\* <<floor(n / d), n mod d>> for d # 0; the top NatBitLen(d) - 1 bits of n
\* are below d and start as the remainder
NatDivModV(n, d, k) ==
  IF d = <<1>> THEN <<n, <<>>>>
  ELSE IF k <= 0 THEN <<<<>>, n>>
  ELSE NatDivLoop(<<n, d, k - 1, <<>>, NatShr(n, k)>>)

NatDivMod(n, d) ==
  CHOOSE r \in {NatDivModV(x, y, NatBitLen(x) - NatBitLen(y) + 1) : x \in {n}, y \in {d}} : TRUE

\* a / b for finite non-zero a and b; t makes the quotient long enough
FDivFin(a, b, t) ==
  CHOOSE f \in {Round(Xor(a.s, b.s), qr[1], a.e - b.e - t, qr[2] # <<>>) :
                  qr \in {NatDivMod(NatShl(a.m, t), b.m)}} : TRUE

\* a / b for b # 0
FDiv(a, b) ==
  IF a.k = "nan" \/ b.k = "nan" THEN NaN
  ELSE IF a.k = "inf" THEN (IF b.k = "inf" THEN NaN ELSE Inf(Xor(a.s, b.s)))
  ELSE IF b.k = "inf" \/ IsZero(a) THEN Zero
  ELSE FDivFin(a, b, Max2(0, Precision + 3 + NatBitLen(b.m) - NatBitLen(a.m)))

(***************************************************************************)
(* Python's arithmetic on the values above.  An operation on a value that  *)
(* is not a number raises TypeError; a raised exception is itself a value  *)
(* (k names it) and propagates through every later operation of the same   *)
(* expression, as the exception unwinds the expression in Python.          *)
(***************************************************************************)
TypeError == [k |-> "TypeError", s |-> 0, m |-> <<>>, e |-> 0]
OverflowError == [k |-> "OverflowError", s |-> 0, m |-> <<>>, e |-> 0]
ZeroDivisionError == [k |-> "ZeroDivisionError", s |-> 0, m |-> <<>>, e |-> 0]
IsExc(a) == a.k \in {"TypeError", "OverflowError", "ZeroDivisionError"}
NoExc == "-"

One == FromInt(1)

\* a * b
PyMul(a, b) ==
  IF IsExc(a) THEN a ELSE IF IsExc(b) THEN b
  ELSE IF IsNum(a) /\ IsNum(b) THEN FMul(a, b) ELSE TypeError

\* a + b
PyAdd(a, b) ==
  IF IsExc(a) THEN a ELSE IF IsExc(b) THEN b
  ELSE IF IsNum(a) /\ IsNum(b) THEN FAdd(a, b) ELSE TypeError

\* a - b
PySub(a, b) ==
  IF IsExc(a) THEN a ELSE IF IsExc(b) THEN b
  ELSE IF IsNum(a) /\ IsNum(b) THEN FSub(a, b) ELSE TypeError

\* a ** 2 for a Python float: float_pow raises OverflowError when the
\* result of a finite operand is not finite
PyPow2(a) ==
  IF IsExc(a) THEN a
  ELSE IF ~IsNum(a) THEN TypeError
  ELSE CHOOSE r \in {IF a.k = "fin" /\ p.k = "inf" THEN OverflowError ELSE p :
                       p \in {FMul(a, a)}} : TRUE

\* a ** 2 for the int 0 or a numpy.float64 (self.std): no exception
NpPow2(a) ==
  IF IsExc(a) THEN a ELSE IF ~IsNum(a) THEN TypeError ELSE FMul(a, a)

\* np.sqrt(a): NaN for a negative operand, no exception
NpSqrt(a) ==
  IF IsExc(a) THEN a ELSE IF ~IsNum(a) THEN TypeError ELSE FSqrt(a)

\* a / b
PyDiv(a, b) ==
  IF IsExc(a) THEN a ELSE IF IsExc(b) THEN b
  ELSE IF ~(IsNum(a) /\ IsNum(b)) THEN TypeError
  ELSE IF IsZero(b) THEN ZeroDivisionError
  ELSE FDiv(a, b)

\* abs(a)
PyAbs(a) ==
  IF IsExc(a) THEN a ELSE IF ~IsNum(a) THEN TypeError ELSE FAbs(a)

\* a > b: "True", "False" or the name of the exception raised
PyGt(a, b) ==
  IF IsExc(a) THEN a.k ELSE IF IsExc(b) THEN b.k
  ELSE IF ~(IsNum(a) /\ IsNum(b)) THEN "TypeError"
  ELSE IF FGt(a, b) THEN "True" ELSE "False"

(***************************************************************************)
(* validate_data (lines 14-18): the isinstance(value, (int, float)) test.  *)
(* NaN and the infinities are floats and pass it.  update_ema never calls  *)
(* it; only data_stream_simulation does.                                   *)
(***************************************************************************)
validate_data(value) == IF IsNum(value) THEN "True" ELSE "DataStreamException"

\* A valid sample in the sense of the specification: a finite real number.
ValidSample(value) == value.k = "fin"

(***************************************************************************)
(* EMAAnomalyDetector.update_ema (lines 68-90), as pure operators.         *)
(***************************************************************************)
\* A first-sample branch that seeds the spread with the sample (self.std = value).
FirstSampleSeedsSpread(value) == <<value, value>>

\* lines 73-74: the first-sample branch, <<self.ema, self.std>>
FirstSample(value) == <<value, Zero>>

\* line 77: self.alpha * value + (1 - self.alpha) * self.ema
NewEma(a, value, e) ==
  CHOOSE r \in {PyAdd(p, q) :
                  p \in {PyMul(a, value)},
                  q \in {CHOOSE x \in {PyMul(w, e) : w \in {PySub(One, a)}} : TRUE}} : TRUE

\* A deviation term without the square: self.alpha * (value - self.ema).
DeviationTermUnsquared(a, value, e) ==
  CHOOSE r \in {PyMul(a, d) : d \in {PySub(value, e)}} : TRUE

\* line 79, the deviation term: self.alpha * (value - self.ema) ** 2, with
\* e the value line 77 has just stored in self.ema
DeviationTerm(a, value, e) ==
  CHOOSE r \in {CHOOSE x \in {PyMul(a, sq) : sq \in {PyPow2(d)}} : TRUE :
                  d \in {PySub(value, e)}} : TRUE

\* line 79, the memory term: (1 - self.alpha) * self.std ** 2
MemoryTerm(a, s) ==
  CHOOSE r \in {PyMul(w, sq) : w \in {PySub(One, a)}, sq \in {NpPow2(s)}} : TRUE

\* A spread update without the square root: the variance stored as the spread.
NewStdNoSqrt(a, value, e, s) ==
  CHOOSE r \in {PyAdd(dev, mem) :
                  dev \in {DeviationTerm(a, value, e)},
                  mem \in {MemoryTerm(a, s)}} : TRUE

\* line 79: np.sqrt(alpha * (value - ema) ** 2 + (1 - alpha) * std ** 2)
NewStd(a, value, e, s) ==
  CHOOSE r \in {CHOOSE x \in {NpSqrt(sum) : sum \in {PyAdd(dev, mem)}} : TRUE :
                  dev \in {DeviationTerm(a, value, e)},
                  mem \in {MemoryTerm(a, s)}} : TRUE

\* lines 76-79: the two assignments of the else branch, <<ema, std, exception>>;
\* an exception leaves the attributes assigned so far as they are
UpdateBranchStd(a, value, e1, s) ==
  CHOOSE r \in {IF IsExc(s1) THEN <<e1, s, s1.k>> ELSE <<e1, s1, NoExc>> :
                  s1 \in {NewStd(a, value, e1, s)}} : TRUE

\* An else branch with its two assignments in the other order: the spread is
\* computed from the centre of before the call, and the centre moves afterwards.
UpdateBranchSpreadFirst(a, value, e, s) ==
  CHOOSE r \in {IF IsExc(s1) THEN <<e, s, s1.k>>
                ELSE CHOOSE x \in {IF IsExc(e1) THEN <<e, s1, e1.k>> ELSE <<e1, s1, NoExc>> :
                                     e1 \in {NewEma(a, value, e)}} : TRUE :
                  s1 \in {NewStd(a, value, e, s)}} : TRUE

\* lines 76-79: the else branch
UpdateBranch(a, value, e, s) ==
  CHOOSE r \in {IF IsExc(e1) THEN <<e, s, e1.k>> ELSE UpdateBranchStd(a, value, e1, s) :
                  e1 \in {NewEma(a, value, e)}} : TRUE

\* line 82: (value - self.ema) / (self.std if self.std > 0 else 1)
ZScore(value, e, s) ==
  CHOOSE r \in {PyDiv(d, IF PyGt(s, Zero) = "True" THEN s ELSE One) :
                  d \in {PySub(value, e)}} : TRUE

\* line 84: abs(z_score) > self.threshold
IsAnomaly(z, t) == CHOOSE r \in {PyGt(x, t) : x \in {PyAbs(z)}} : TRUE

\* lines 81-90: the classification under the try: the flag returned and the
\* exception caught (both handlers return False)
Classify(value, e, s, t) ==
  CHOOSE r \in {IF f \in {"True", "False"} THEN <<f, NoExc>> ELSE <<"False", f>> :
                  f \in {CHOOSE x \in {IsAnomaly(z, t) : z \in {ZScore(value, e, s)}} : TRUE}} : TRUE

\* lines 72-79: the if statement, <<ema, std, exception>>
Assign(e, s, a, value) ==
  IF e = None THEN FirstSample(value) \o <<NoExc>> ELSE UpdateBranch(a, value, e, s)

\* lines 81-90 after the assignments asg: the attributes after the call, the
\* value returned, the exception caught and the branch taken
Finish(asg, value, t, br) ==
  IF asg[3] # NoExc
  THEN [ema |-> asg[1], std |-> asg[2], ret |-> "False", exc |-> asg[3], branch |-> br]
  ELSE CHOOSE r \in {[ema |-> asg[1], std |-> asg[2], ret |-> cls[1], exc |-> cls[2],
                      branch |-> br] :
                       cls \in {Classify(value, asg[1], asg[2], t)}} : TRUE

\* lines 70-90: the call, from the attributes e (ema), s (std), a (alpha),
\* t (threshold)
Call(e, s, a, t, value) ==
  CHOOSE r \in {Finish(asg, value, t, IF e = None THEN "first" ELSE "update") :
                  asg \in {Assign(e, s, a, value)}} : TRUE

(***************************************************************************)
(* The state: the four attributes of one detector, and what the last call  *)
(* of update_ema did.                                                      *)
(***************************************************************************)
VARIABLES
  constructed,   \* an EMAAnomalyDetector instance exists
  ema,           \* self.ema
  alpha,         \* self.alpha
  std,           \* self.std
  threshold,     \* self.threshold
  hist,          \* the arguments of the update_ema calls so far, in order
  ret,           \* what the last update_ema call returned ("-": no call yet)
  exc,           \* the exception its try block caught (NoExc: none)
  branch,        \* the branch of line 72 it took: "first" or "update"
  preEma,        \* self.ema when the last call started
  preStd,        \* self.std when the last call started
  inits,         \* how many calls took the first-sample branch
  twin,          \* a second instance built with the same alpha and threshold:
                 \* its ema and std, the arguments of its calls, its last flag
  tasks          \* the event loop of lines 148-150 and its two tasks: each
                 \* task's position, the ready queue, the running task

vars == <<constructed, ema, alpha, std, threshold, hist, ret, exc, branch,
          preEma, preStd, inits, twin, tasks>>

MaxCalls == 3    \* update_ema calls per behaviour of Spec
MaxRun == 5      \* update_ema calls per behaviour of SpecRun
MaxIdx == 12     \* the stream positions (t, idx) are counted up to MaxIdx in SpecTasks
MaxFree == 3     \* freely chosen update_ema calls per behaviour of SpecScore
MaxPair == 2     \* update_ema calls per instance and behaviour of SpecPair

\* Floats used as configuration and samples.
Tenth == FDiv(FromInt(1), FromInt(10))          \* 0.1
Half == FDiv(FromInt(1), FromInt(2))            \* 0.5
ThreeTenths == FDiv(FromInt(3), FromInt(10))    \* 0.3
Huge == Fin(0, <<1>>, 700)                      \* 2.0 ** 700
Tiny == Fin(0, <<1>>, -700)                     \* 2.0 ** -700

\* (alpha, threshold) pairs passed to the constructor: the module's own
\* detector (line 145), two more valid ones, and pairs the specification
\* calls invalid
Configs ==
  { <<Tenth, FromInt(3)>>, <<Half, FromInt(2)>>, <<One, Zero>>,
    <<Half, FromInt(-1)>>, <<Zero, FromInt(3)>>, <<FromInt(2), FromInt(3)>>,
    <<NaN, FromInt(3)>> }

\* 0 < alpha <= 1, and finite
ValidAlpha(a) == a.k = "fin" /\ a.s = 0 /\ ~IsZero(a) /\ ~FGt(a, One)
\* threshold >= 0, and finite
ValidThreshold(t) == t.k = "fin" /\ t.s = 0
ValidConfig(a, t) == ValidAlpha(a) /\ ValidThreshold(t)

\* arguments passed to update_ema
Samples == {FromInt(50), ThreeTenths, Huge, None, Str, NaN, Inf(0)}

\* no event loop: the specifications that call update_ema directly
NoTasks == [pc |-> <<>>, ready |-> <<>>, running |-> "none"]

\* lines 63-66 for the second instance: ema and std None, no call yet
NewTwin == [ema |-> None, std |-> None, hist |-> <<>>, ret |-> "-"]

Init ==
  /\ constructed = FALSE
  /\ ema = None /\ alpha = None /\ std = None /\ threshold = None
  /\ hist = <<>> /\ ret = "-" /\ exc = NoExc /\ branch = "-"
  /\ preEma = None /\ preStd = None /\ inits = 0
  /\ twin = NewTwin
  /\ tasks = NoTasks

\* lines 62-66: EMAAnomalyDetector.__init__(alpha, threshold)
EMAAnomalyDetector_init(a, t) ==
  /\ ~constructed
  /\ constructed' = TRUE
  /\ ema' = None
  /\ alpha' = a
  /\ std' = None
  /\ threshold' = t
  /\ UNCHANGED <<hist, ret, exc, branch, preEma, preStd, inits, twin, tasks>>

\* lines 68-90: detector.update_ema(value)
update_ema(value) ==
  /\ constructed
  /\ \E c \in {Call(ema, std, alpha, threshold, value)} :
       /\ ema' = c.ema
       /\ std' = c.std
       /\ ret' = c.ret
       /\ exc' = c.exc
       /\ branch' = c.branch
       /\ inits' = IF c.branch = "first" THEN inits + 1 ELSE inits
  /\ hist' = Append(hist, value)
  /\ preEma' = ema
  /\ preStd' = std
  /\ UNCHANGED <<constructed, alpha, threshold, twin, tasks>>

\* An attribute lookup that finds a value shared by all instances (an attribute
\* of the class) instead of the instance's own.
ClassAttr(own, shared) == shared

\* lines 63-66: __init__ assigns ema, alpha, std and threshold on self, so that
\* self.x in update_ema is the instance's own attribute
SelfAttr(own, shared) == own

\* lines 68-90: update_ema(value) called on the second instance
twin_update_ema(value) ==
  /\ constructed
  /\ \E c \in {Call(SelfAttr(twin.ema, ema), SelfAttr(twin.std, std),
                    alpha, threshold, value)} :
       twin' = [ema |-> c.ema, std |-> c.std, hist |-> Append(twin.hist, value),
                ret |-> c.ret]
  /\ UNCHANGED <<constructed, ema, alpha, std, threshold, hist, ret, exc, branch,
                 preEma, preStd, inits, tasks>>

\* Any detector, any arguments.
Next ==
  \/ \E cfg \in Configs : EMAAnomalyDetector_init(cfg[1], cfg[2])
  \/ \E value \in Samples : Len(hist) < MaxCalls /\ update_ema(value)

Spec == Init /\ [][Next]_vars

(***************************************************************************)
(* SpecRun: the detector of line 145 (alpha = 0.1, threshold = 3) fed a    *)
(* run of identical finite samples and then one different finite sample.   *)
(***************************************************************************)
RunSamples == {FromInt(50), FromInt(100), ThreeTenths, FromInt(3), Huge, Tiny}

\* every sample so far is the same value
ConstantRun == \A i \in 1..Len(hist) : hist[i] = hist[1]

\* line 145: detector = EMAAnomalyDetector(alpha=0.1, threshold=3)
InitRun ==
  /\ constructed = TRUE
  /\ ema = None /\ alpha = Tenth /\ std = None /\ threshold = FromInt(3)
  /\ hist = <<>> /\ ret = "-" /\ exc = NoExc /\ branch = "-"
  /\ preEma = None /\ preStd = None /\ inits = 0
  /\ twin = NewTwin
  /\ tasks = NoTasks

NextRun ==
  \E value \in RunSamples : Len(hist) < MaxRun /\ ConstantRun /\ update_ema(value)

SpecRun == InitRun /\ [][NextRun]_vars

(***************************************************************************)
(* SpecPair: two detectors constructed with the same alpha and threshold,  *)
(* each fed its own sequence of samples, their calls interleaved.          *)
(***************************************************************************)
PairConfigs == { <<Tenth, FromInt(3)>>, <<Half, FromInt(2)>> }
PairSamples == {FromInt(50), ThreeTenths, Huge}

InitPair ==
  /\ constructed = TRUE
  /\ \E cfg \in PairConfigs : alpha = cfg[1] /\ threshold = cfg[2]
  /\ ema = None /\ std = None
  /\ hist = <<>> /\ ret = "-" /\ exc = NoExc /\ branch = "-"
  /\ preEma = None /\ preStd = None /\ inits = 0
  /\ twin = NewTwin
  /\ tasks = NoTasks

NextPair ==
  \/ \E value \in PairSamples : Len(hist) < MaxPair /\ update_ema(value)
  \/ \E value \in PairSamples : Len(twin.hist) < MaxPair /\ twin_update_ema(value)

SpecPair == InitPair /\ [][NextPair]_vars

(***************************************************************************)
(* The claims.                                                             *)
(***************************************************************************)
Last(h) == h[Len(h)]
Called == Len(hist) >= 1

(* C1: for a freshly constructed detector with 0 < alpha <= 1 and          *)
(* threshold >= 0, the first update_ema(v) with a finite number v returns  *)
(* False and leaves ema = v and std = 0.                                   *)
C1_FirstCall ==
  (constructed /\ ValidConfig(alpha, threshold) /\ Len(hist) = 1 /\ ValidSample(hist[1]))
    => (ret = "False" /\ ema = hist[1] /\ std = Zero)

C1_Witness ==
  /\ constructed /\ ValidConfig(alpha, threshold)
  /\ Len(hist) = 1 /\ ValidSample(hist[1]) /\ branch = "first" /\ ret = "False"

(* C2: an invalid sample (not a number, or NaN or an infinity) passed to   *)
(* update_ema at any position, the first included, leaves ema and std as   *)
(* they were before the call.                                              *)
C2_InvalidSampleNoOp ==
  (Called /\ ~ValidSample(Last(hist))) => (ema = preEma /\ std = preStd)

(* C3: no partial update: when the computation of the update branch raises *)
(* an exception, ema and std both keep their values from before the call.  *)
C3_NoPartialUpdate ==
  (Called /\ branch = "update" /\ exc # NoExc) => (ema = preEma /\ std = preStd)

(* C4: the first-sample branch is taken exactly once, on the first valid   *)
(* sample and on no other call; calls with invalid samples take it never.  *)
C4_InitialisedOnce ==
  /\ inits = IF \E i \in 1..Len(hist) : ValidSample(hist[i]) THEN 1 ELSE 0
  /\ (Called /\ branch = "first") =>
       /\ ValidSample(Last(hist))
       /\ \A i \in 1..(Len(hist) - 1) : ~ValidSample(hist[i])

(* C5: in every reachable state of a detector ema and std are both None or *)
(* both set.                                                               *)
C5_BothOrNeither ==
  constructed => ((ema = None) <=> (std = None))

(* C6: a call with an invalid sample returns something other than the      *)
(* True or False of a normal classification.                               *)
C6_InvalidSampleDistinct ==
  (Called /\ ~ValidSample(Last(hist))) => ret \notin {"True", "False"}

(* C7, as claimed: with alpha = 0.1 and threshold = 3, after each sample   *)
(* of a run of identical samples c the call returned False with ema = c    *)
(* and std = 0, and the first different sample v is flagged.               *)
C7_AnyRun ==
  /\ (Called /\ ConstantRun) => (ret = "False" /\ ema = hist[1] /\ std = Zero)
  /\ (Called /\ ~ConstantRun) => ret = "True"

(* C7, amended: the same for c = 50 and v = 100, the run of the            *)
(* specification's scenario, of any length.                                *)
C7_Scenario ==
  /\ (Called /\ ConstantRun /\ hist[1] = FromInt(50))
       => (ret = "False" /\ ema = FromInt(50) /\ std = Zero)
  /\ (Called /\ ~ConstantRun /\ hist[1] = FromInt(50) /\ Last(hist) = FromInt(100))
       => ret = "True"

C7_Witness ==
  /\ hist = <<FromInt(50), FromInt(50), FromInt(50), FromInt(50), FromInt(100)>>
  /\ ret = "True"

(* C8: for 0 < alpha <= 1, after every update_ema call of a sequence of    *)
(* finite samples std is set and std >= 0.                                 *)
C8_SpreadNonNegative ==
  (constructed /\ ValidAlpha(alpha) /\ Called /\ \A i \in 1..Len(hist) : ValidSample(hist[i]))
    => (std.k \in {"fin", "inf"} /\ std.s = 0)

C8_Witness ==
  /\ constructed /\ ValidAlpha(alpha) /\ Len(hist) >= 2
  /\ \A i \in 1..Len(hist) : ValidSample(hist[i])
  /\ branch = "update" /\ exc = NoExc /\ std.k = "fin" /\ ~IsZero(std)

C10_ValidConfiguration ==
  constructed => ValidConfig(alpha, threshold)

\* every argument so far was a finite number
AllValid == \A i \in 1..Len(hist) : ValidSample(hist[i])

\* x * x on floats, infinite on overflow
FSquare(x) == FMul(x, x)

\* line 77 evaluated on the attributes of before the last call
ExpectedEma ==
  FAdd(FMul(alpha, Last(hist)), FMul(FSub(One, alpha), preEma))

\* line 79 evaluated on the centre now stored and the spread of before the call
ExpectedStd ==
  FSqrt(FAdd(FMul(alpha, FSquare(FSub(Last(hist), ema))),
             FMul(FSub(One, alpha), FSquare(preStd))))

(* C11: on every valid sample after the first, update_ema stores           *)
(* ema = alpha * value + (1 - alpha) * ema_before and                      *)
(* std = sqrt(alpha * (value - ema) ^ 2 + (1 - alpha) * std_before ^ 2),   *)
(* the deviation taken against the ema just stored.                        *)
C11_UpdateFormulas ==
  (constructed /\ ValidConfig(alpha, threshold) /\ Len(hist) >= 2 /\ AllValid)
    => (ema = ExpectedEma /\ std = ExpectedStd)

\* C11 restricted to the calls whose try block raised nothing.
C11_WhenNothingRaised ==
  (constructed /\ ValidConfig(alpha, threshold) /\ Len(hist) >= 2 /\ AllValid
     /\ exc = NoExc)
    => (ema = ExpectedEma /\ std = ExpectedStd)

\* line 82: the z-score evaluated on the attributes as the last call left them
ExpectedScore ==
  FDiv(FSub(Last(hist), ema), IF FGt(std, Zero) THEN std ELSE One)

(* C12: update_ema returns True exactly when abs(score) > threshold, the   *)
(* inequality strict, where score = (value - ema) / std on the ema and std *)
(* the call leaves behind when std > 0, and (value - ema) / 1 when         *)
(* std = 0.                                                                *)
C12_FlagIffScoreExceeds ==
  (constructed /\ ValidConfig(alpha, threshold) /\ Called /\ AllValid)
    => ((ret = "True") <=> FGt(FAbs(ExpectedScore), threshold))

\* C12 restricted to the calls whose try block raised nothing.
C12_WhenNothingRaised ==
  (constructed /\ ValidConfig(alpha, threshold) /\ Called /\ AllValid /\ exc = NoExc)
    => ((ret = "True") <=> FGt(FAbs(ExpectedScore), threshold))

(***************************************************************************)
(* SpecScore: detectors whose alpha * threshold ^ 2 is 2 and 1, fed finite *)
(* samples: any MaxFree of ScoreSamples, or the low-variance sequence      *)
(* 10, 12, 11, 13, 12.                                                     *)
(***************************************************************************)
Quarter == FDiv(FromInt(1), FromInt(4))         \* 0.25
Minute == Fin(0, <<1>>, -535)                   \* 2.0 ** -535

ScoreConfigs == { <<Half, FromInt(2)>>, <<Quarter, FromInt(2)>> }
ScoreSamples ==
  {FromInt(10), FromInt(11), FromInt(12), FromInt(13), Zero, Minute, Huge}
LowVariance == <<FromInt(10), FromInt(12), FromInt(11), FromInt(13), FromInt(12)>>

InitScore ==
  /\ constructed = TRUE
  /\ \E cfg \in ScoreConfigs : alpha = cfg[1] /\ threshold = cfg[2]
  /\ ema = None /\ std = None
  /\ hist = <<>> /\ ret = "-" /\ exc = NoExc /\ branch = "-"
  /\ preEma = None /\ preStd = None /\ inits = 0
  /\ twin = NewTwin
  /\ tasks = NoTasks

\* value continues the low-variance sequence
ContinuesLowVariance(value) ==
  /\ Len(hist) < Len(LowVariance)
  /\ hist = SubSeq(LowVariance, 1, Len(hist))
  /\ value = LowVariance[Len(hist) + 1]

NextScore ==
  \E value \in ScoreSamples :
    /\ Len(hist) < MaxFree \/ ContinuesLowVariance(value)
    /\ update_ema(value)

SpecScore == InitScore /\ [][NextScore]_vars

(* C13, as claimed: for 0 < alpha <= 1, after every call on finite samples *)
(* alpha * (value - ema) ^ 2 <= std ^ 2, and a detector with               *)
(* alpha * threshold ^ 2 >= 1 flags no sample.                             *)
C13_ScoreBound ==
  (constructed /\ ValidAlpha(alpha) /\ Called /\ AllValid)
    => /\ ~FGt(FMul(alpha, FSquare(FSub(Last(hist), ema))), FSquare(std))
       /\ ~FGt(One, FMul(alpha, FSquare(threshold))) => ret # "True"

(* C13, amended: a detector with alpha = 0.5 and threshold = 2 flags no    *)
(* sample of any sequence of finite samples.                               *)
C13_HalfTwoNeverFlags ==
  (constructed /\ alpha = Half /\ threshold = FromInt(2) /\ Called /\ AllValid)
    => ret = "False"

C13_Witness ==
  /\ alpha = Half /\ threshold = FromInt(2)
  /\ hist = LowVariance /\ ret = "False" /\ exc = NoExc /\ ~IsZero(std)

(***************************************************************************)
(* SpecTasks: the program of lines 145-150.  One detector (alpha = 0.1,    *)
(* threshold = 3) shared by the tasks live_visualization ("lv") and        *)
(* process_data_stream ("pd") of one asyncio event loop.  The loop runs    *)
(* its ready queue in order, and a running task keeps the loop until it    *)
(* awaits or ends.  update_ema is taken in two steps, the assignment of    *)
(* self.ema and the rest, so that a switch between them would show.        *)
(* Each task has its own data_stream_simulation generator; of its values   *)
(* only one is kept (scheduling does not depend on them), and its position *)
(* t is counted up to MaxIdx and then stays.                               *)
(***************************************************************************)
TaskIds == {"lv", "pd"}
StreamSamples == {FromInt(50)}

\* lines 145-149: the detector and the two tasks created, none started
InitTasks ==
  /\ constructed = TRUE
  /\ ema = None /\ alpha = Tenth /\ std = None /\ threshold = FromInt(3)
  /\ hist = <<>> /\ ret = "-" /\ exc = NoExc /\ branch = "-"
  /\ preEma = None /\ preStd = None /\ inits = 0
  /\ twin = NewTwin
  /\ tasks = [pc |-> [t \in TaskIds |-> "created"],
              value |-> [t \in TaskIds |-> None],
              idx |-> [t \in TaskIds |-> 0],
              ready |-> <<"lv", "pd">>,
              running |-> "none",
              writer |-> "none"]

\* Tasks as threads: any task may take its next step at any time.
RunsPreemptively(t) == tasks.pc[t] # "failed"

\* asyncio runs one task at a time: t takes steps only while the loop runs it
Runs(t) == tasks.running = t

\* line 150, the event loop: with no task running, run the head of the ready queue
loop_run_once ==
  /\ tasks.running = "none"
  /\ tasks.ready # <<>>
  /\ tasks' = [tasks EXCEPT !.running = Head(tasks.ready), !.ready = Tail(tasks.ready)]
  /\ UNCHANGED <<constructed, ema, alpha, std, threshold, hist, ret, exc, branch,
                 preEma, preStd, inits, twin>>

\* lines 100-108: the figure is built and displayed, or one of these calls
\* raises (display is a name only IPython defines) and the task ends
live_visualization_start ==
  /\ Runs("lv")
  /\ tasks.pc["lv"] = "created"
  /\ \/ tasks' = [tasks EXCEPT !.pc["lv"] = "next"]
     \/ tasks' = [tasks EXCEPT !.pc["lv"] = "failed", !.running = "none"]
  /\ UNCHANGED <<constructed, ema, alpha, std, threshold, hist, ret, exc, branch,
                 preEma, preStd, inits, twin>>

\* lines 110 and 134 with lines 29-45: the for statement takes the next value
\* of the task's generator (time.sleep blocks, it does not give the loop back)
stream_next(t) ==
  /\ Runs(t)
  /\ tasks.pc[t] = "next" \/ (t = "pd" /\ tasks.pc[t] = "created")
  /\ \E value \in StreamSamples :
       tasks' = [tasks EXCEPT !.pc[t] = "assign_ema",
                              !.value[t] = value,
                              !.idx[t] = IF @ < MaxIdx THEN @ + 1 ELSE @]
  /\ UNCHANGED <<constructed, ema, alpha, std, threshold, hist, ret, exc, branch,
                 preEma, preStd, inits, twin>>

\* lines 70-77 of update_ema called at line 115 or 137: self.ema is assigned
\* (line 73 or line 77), or line 77 raises and the call returns False
update_ema_centre(t) ==
  /\ Runs(t)
  /\ tasks.pc[t] = "assign_ema"
  /\ preEma' = ema /\ preStd' = std
  /\ hist' = hist        \* the arguments are not recorded in SpecTasks
  /\ \E e1 \in {IF ema = None THEN tasks.value[t] ELSE NewEma(alpha, tasks.value[t], ema)} :
       IF IsExc(e1)
       THEN /\ ema' = ema /\ ret' = "False" /\ exc' = e1.k /\ branch' = "update"
            /\ tasks' = [tasks EXCEPT !.pc[t] = IF t = "lv" THEN "plot" ELSE "await",
                                      !.writer = t]
       ELSE /\ ema' = e1 /\ ret' = ret /\ exc' = NoExc
            /\ branch' = IF ema = None THEN "first" ELSE "update"
            /\ tasks' = [tasks EXCEPT !.pc[t] = "assign_std", !.writer = t]
  /\ UNCHANGED <<constructed, alpha, std, threshold, inits, twin>>

\* lines 74 and 79-90 of the same call: self.std is assigned (or line 79
\* raises), the flag is computed and returned
update_ema_spread(t) ==
  /\ Runs(t)
  /\ tasks.pc[t] = "assign_std"
  /\ \E c \in {Finish(IF branch = "first"
                       THEN <<ema, Zero, NoExc>>
                       ELSE UpdateBranchStd(alpha, tasks.value[t], ema, std),
                     tasks.value[t], threshold, branch)} :
       /\ std' = c.std /\ ret' = c.ret /\ exc' = c.exc
  /\ inits' = IF branch = "first" THEN inits + 1 ELSE inits
  /\ tasks' = [tasks EXCEPT !.pc[t] = IF t = "lv" THEN "plot" ELSE "await",
                            !.writer = t]
  /\ UNCHANGED <<constructed, ema, alpha, threshold, hist, branch, preEma, preStd, twin>>

\* lines 111-128: the lists and the figure are updated; back to the for statement
live_visualization_plot ==
  /\ Runs("lv")
  /\ tasks.pc["lv"] = "plot"
  /\ tasks' = [tasks EXCEPT !.pc["lv"] = "next"]
  /\ UNCHANGED <<constructed, ema, alpha, std, threshold, hist, ret, exc, branch,
                 preEma, preStd, inits, twin>>

\* lines 138-140: await asyncio.sleep(0.1) gives the loop back
process_data_stream_sleep ==
  /\ Runs("pd")
  /\ tasks.pc["pd"] = "await"
  /\ tasks' = [tasks EXCEPT !.pc["pd"] = "sleeping", !.running = "none"]
  /\ UNCHANGED <<constructed, ema, alpha, std, threshold, hist, ret, exc, branch,
                 preEma, preStd, inits, twin>>

\* line 140: the sleep is over, the loop queues the task again
sleep_done ==
  /\ tasks.pc["pd"] = "sleeping"
  /\ tasks' = [tasks EXCEPT !.pc["pd"] = "next", !.ready = Append(@, "pd")]
  /\ UNCHANGED <<constructed, ema, alpha, std, threshold, hist, ret, exc, branch,
                 preEma, preStd, inits, twin>>

NextTasks ==
  \/ loop_run_once
  \/ live_visualization_start
  \/ \E t \in TaskIds : stream_next(t)
  \/ \E t \in TaskIds : update_ema_centre(t)
  \/ \E t \in TaskIds : update_ema_spread(t)
  \/ live_visualization_plot
  \/ process_data_stream_sleep
  \/ sleep_done

\* The loop and the running task always take their next step.
SpecTasks == InitTasks /\ [][NextTasks]_vars /\ WF_vars(NextTasks)

(* C14: update_ema has no suspension point: while a task is between the    *)
(* two assignments of an update_ema call it is the running task, the last  *)
(* write to the detector is its own and the other task is not inside an    *)
(* update; and what the finished call leaves is what one uninterrupted     *)
(* call computes from the attributes it found.                             *)
C14_UpdateRunsToCompletion ==
  \A t \in TaskIds :
    /\ tasks.pc[t] = "assign_std" =>
         /\ tasks.running = t
         /\ tasks.writer = t
         /\ \A u \in TaskIds \ {t} : tasks.pc[u] \notin {"assign_ema", "assign_std"}
    /\ (tasks.pc[t] \in {"plot", "await"} /\ tasks.writer = t) =>
         \E c \in {Call(preEma, preStd, alpha, threshold, tasks.value[t])} :
           ema = c.ema /\ std = c.std /\ ret = c.ret

\* live_visualization is inside an update_ema call while process_data_stream
\* is ready to run
C14_Witness ==
  /\ tasks.pc["lv"] = "assign_std"
  /\ tasks.ready = <<"pd">>
  /\ ema # None

(* C15: in every execution both tasks call detector.update_ema infinitely  *)
(* often.                                                                  *)
C15_BothCallForever ==
  /\ []<>(tasks.pc["lv"] = "assign_ema")
  /\ []<>(tasks.pc["pd"] = "assign_ema")

\* Why C15 fails: once live_visualization has entered its loop it never gives
\* the loop back, and process_data_stream is never started.
C15_VisualizationStarves ==
  tasks.pc["lv"] \notin {"created", "failed"} => tasks.pc["pd"] = "created"

====
